---- MODULE Spec2Model ----
(***************************************************************************)
(* Model of project-generation.py: the sandbox guard (is_safe_path,        *)
(* is_safe_command), the six effect executors, the tool-call dispatcher    *)
(* (ProjectGenerator._handle_tool_calls) and the orchestration loop        *)
(* (ProjectGenerator.generate_project).                                    *)
(*                                                                         *)
(* Python strings are sequences of one-character strings, so that          *)
(* str.startswith, str.lower, str.split and the os.path functions are      *)
(* computed character by character, as the interpreter computes them.      *)
(***************************************************************************)
EXTENDS Integers, Sequences, FiniteSets, TLC

VARIABLES
    cwd,              \* os.getcwd(): the process working directory (a string)
    fs,               \* the filesystem: [dirs, files]
    processes,        \* the commands handed to subprocess.Popen, in order
    call,             \* the module-level function call in progress (guard/executor/dispatcher runs)
    pc,               \* generate_project: position of the session
    step,             \* generate_project: local variable step
    messages,         \* self.messages
    actions_taken,    \* generate_project: local variable actions_taken
    generated_files,  \* generate_project: local variable generated_files
    generated_dirs,   \* generate_project: local variable generated_dirs
    outcome,          \* how the while loop was left
    calls,            \* number of in-loop planner calls made (history)
    dispatched,       \* number of batches handed to _handle_tool_calls (history)
    result            \* what generate_project handed to its caller

vars == <<cwd, fs, processes, call, pc, step, messages, actions_taken,
          generated_files, generated_dirs, outcome, calls, dispatched, result>>

sessionVars == <<pc, step, messages, actions_taken, generated_files,
                 generated_dirs, outcome, calls, dispatched, result>>

(***************************************************************************)
(* Bounds of the model.                                                    *)
(***************************************************************************)
MaxPathPieces == 4
MaxCmdPieces == 3
MaxBatch == 2

(***************************************************************************)
(* Python values.                                                          *)
(***************************************************************************)
PyNone == [t |-> "None"]
PyStr(s) == [t |-> "str", s |-> s]
PyBool(b) == [t |-> "bool", b |-> b]
PyDict(d) == [t |-> "dict", d |-> d]

Returned(v) == [raised |-> FALSE, value |-> v]
Raised(e) == [raised |-> TRUE, error |-> e]

SeqsUpTo(S, n) == UNION {[1..k -> S] : k \in 0..n}

RECURSIVE Concat(_)
Concat(ss) == IF ss = <<>> THEN <<>> ELSE Head(ss) \o Concat(Tail(ss))

(***************************************************************************)
(* str methods.                                                            *)
(***************************************************************************)
UpperChars == <<"A","B","C","D","E","F","G","H","I","J","K","L","M",
                "N","O","P","Q","R","S","T","U","V","W","X","Y","Z">>
LowerChars == <<"a","b","c","d","e","f","g","h","i","j","k","l","m",
                "n","o","p","q","r","s","t","u","v","w","x","y","z">>

LowerChar(c) ==
    IF \E i \in 1..Len(UpperChars) : UpperChars[i] = c
    THEN LowerChars[CHOOSE i \in 1..Len(UpperChars) : UpperChars[i] = c]
    ELSE c

\* str.lower()
Lower(s) == [i \in 1..Len(s) |-> LowerChar(s[i])]

\* the characters str.split() treats as separators (those the model's inputs use)
Whitespace == {" ", "\t"}

\* str.startswith(prefix)
StartsWith(s, prefix) ==
    /\ Len(prefix) <= Len(s)
    /\ SubSeq(s, 1, Len(prefix)) = prefix

\* needle in haystack, for strings
Contains(haystack, needle) ==
    \E i \in 1..(Len(haystack) - Len(needle) + 1) :
        SubSeq(haystack, i, i + Len(needle) - 1) = needle

\* str.split(sep): every segment between separators, empty ones included
RECURSIVE SplitFrom(_, _, _, _)
SplitFrom(s, sep, i, cur) ==
    IF i > Len(s) THEN <<cur>>
    ELSE IF s[i] = sep THEN <<cur>> \o SplitFrom(s, sep, i + 1, <<>>)
    ELSE SplitFrom(s, sep, i + 1, Append(cur, s[i]))

SplitOn(s, sep) == SplitFrom(s, sep, 1, <<>>)

\* str.split(): runs of whitespace separate, no empty token
RECURSIVE SplitWsFrom(_, _, _)
SplitWsFrom(s, i, cur) ==
    IF i > Len(s) THEN (IF cur = <<>> THEN <<>> ELSE <<cur>>)
    ELSE IF s[i] \in Whitespace
         THEN (IF cur = <<>> THEN <<>> ELSE <<cur>>) \o SplitWsFrom(s, i + 1, <<>>)
         ELSE SplitWsFrom(s, i + 1, Append(cur, s[i]))

SplitWs(s) == SplitWsFrom(s, 1, <<>>)

\* sep.join(parts)
RECURSIVE JoinWith(_, _)
JoinWith(parts, sep) ==
    IF parts = <<>> THEN <<>>
    ELSE IF Len(parts) = 1 THEN parts[1]
    ELSE parts[1] \o sep \o JoinWith(Tail(parts), sep)

InSeq(x, s) == \E i \in 1..Len(s) : s[i] = x

(***************************************************************************)
(* os.path (posixpath), as called by the guard and the executors.          *)
(***************************************************************************)
Slash == <<"/">>
DotDot == <<".", ".">>
Dot == <<".">>

\* os.path.isabs
IsAbs(path) == StartsWith(path, Slash)

\* os.path.join(a, b)
PathJoin(a, b) ==
    IF IsAbs(b) THEN b
    ELSE IF a = <<>> \/ a[Len(a)] = "/" THEN a \o b
    ELSE a \o Slash \o b

\* the loop of os.path.normpath over the components
RECURSIVE NormComps(_, _, _)
NormComps(comps, new_comps, initial_slashes) ==
    IF comps = <<>> THEN new_comps
    ELSE LET comp == Head(comps)
             rest == Tail(comps)
         IN IF comp = <<>> \/ comp = Dot
            THEN NormComps(rest, new_comps, initial_slashes)
            ELSE IF \/ comp # DotDot
                    \/ (initial_slashes = 0 /\ new_comps = <<>>)
                    \/ (new_comps # <<>> /\ new_comps[Len(new_comps)] = DotDot)
                 THEN NormComps(rest, Append(new_comps, comp), initial_slashes)
                 ELSE IF new_comps # <<>>
                      THEN NormComps(rest, SubSeq(new_comps, 1, Len(new_comps) - 1),
                                     initial_slashes)
                      ELSE NormComps(rest, new_comps, initial_slashes)

\* os.path.normpath
NormPath(path) ==
    IF path = <<>> THEN Dot
    ELSE LET initial_slashes ==
                 IF ~StartsWith(path, Slash) THEN 0
                 ELSE IF StartsWith(path, <<"/", "/">>)
                         /\ ~StartsWith(path, <<"/", "/", "/">>) THEN 2
                 ELSE 1
             joined == JoinWith(NormComps(SplitOn(path, "/"), <<>>, initial_slashes), Slash)
             out == [i \in 1..initial_slashes |-> "/"] \o joined
         IN IF out = <<>> THEN Dot ELSE out

\* os.path.abspath(path), with os.getcwd() = wd
AbsPath(path, wd) ==
    IF IsAbs(path) THEN NormPath(path) ELSE NormPath(PathJoin(wd, path))

(***************************************************************************)
(* The sandbox guard.                                                      *)
(***************************************************************************)
\* is_safe_path: path.startswith(cwd), after os.path.abspath on both
PathCheck(path, root) == StartsWith(path, root)

is_safe_path(path, wd) == PathCheck(AbsPath(path, wd), AbsPath(wd, wd))

\* is_safe_command: "sudo" in command.lower().split()
Sudo == <<"s", "u", "d", "o">>

\* the tokens compared as typed, without lower()
CommandTokensAsTyped(command) == SplitWs(command)

CommandTokens(command) == SplitWs(Lower(command))

is_safe_command(command) == ~InSeq(Sudo, CommandTokens(command))

(***************************************************************************)
(* The filesystem.  A location is the sequence of names from the root; the *)
(* filesystem is the set of directories and the contents of the files.     *)
(* Paths are resolved lexically (no symbolic links); the executors' inputs *)
(* of this model never step with ".." out of a directory that is missing.  *)
(***************************************************************************)
\* the location a path string names, for a process whose working directory is wd
Resolve(path, wd) == SelectSeq(SplitOn(AbsPath(path, wd), "/"), LAMBDA c : c # <<>>)

Front(s) == SubSeq(s, 1, Len(s) - 1)
Last(s) == s[Len(s)]

Prefixes(loc) == {SubSeq(loc, 1, k) : k \in 0..Len(loc)}

\* os.path.exists / os.path.isdir / os.path.isfile / Path.exists
Exists(fsys, loc) == loc \in fsys.dirs \/ loc \in DOMAIN fsys.files
IsDir(fsys, loc) == loc \in fsys.dirs
IsFile(fsys, loc) == loc \in DOMAIN fsys.files

\* os.path.dirname
RECURSIVE RStripSlash(_)
RStripSlash(s) ==
    IF s # <<>> /\ Last(s) = "/" THEN RStripSlash(Front(s)) ELSE s

DirName(p) ==
    LET idx == {i \in 1..Len(p) : p[i] = "/"}
        i == IF idx = {} THEN 0 ELSE CHOOSE k \in idx : \A j \in idx : j <= k
        head == SubSeq(p, 1, i)
    IN IF head # <<>> /\ \E k \in 1..Len(head) : head[k] # "/"
       THEN RStripSlash(head) ELSE head

\* os.makedirs(name, exist_ok): [ok, fs]
MakeDirs(fsys, name, wd, exist_ok) ==
    LET loc == Resolve(name, wd)
    IN IF name = <<>> THEN [ok |-> FALSE, fs |-> fsys]
       ELSE IF \E q \in Prefixes(loc) : IsFile(fsys, q) THEN [ok |-> FALSE, fs |-> fsys]
       ELSE IF IsDir(fsys, loc) THEN [ok |-> exist_ok, fs |-> fsys]
       ELSE [ok |-> TRUE, fs |-> [fsys EXCEPT !.dirs = @ \cup Prefixes(loc)]]

\* f[k] := v, k possibly new
Put(f, k, v) == [x \in DOMAIN f \cup {k} |-> IF x = k THEN v ELSE f[x]]

\* open and write, the file's earlier content kept in mode "w" as in mode "a"
OpenAndWriteKeeping(fsys, filename, content, mode, wd) ==
    LET loc == Resolve(filename, wd)
        openable == /\ mode \in {PyStr(<<"w">>), PyStr(<<"a">>)}
                    /\ filename # <<>>
                    /\ Last(filename) # "/"
                    /\ loc # <<>>
                    /\ ~IsDir(fsys, loc)
                    /\ IsDir(fsys, Front(loc))
        old == IF IsFile(fsys, loc) THEN fsys.files[loc] ELSE <<>>
        opened == [fsys EXCEPT !.files = Put(@, loc, old)]
    IN IF ~openable THEN [ok |-> FALSE, fs |-> fsys]
       ELSE IF content.t # "str" THEN [ok |-> FALSE, fs |-> opened]
       ELSE [ok |-> TRUE, fs |-> [fsys EXCEPT !.files = Put(@, loc, old \o content.s)]]

\* with open(filename, mode) as file: file.write(content)  -- [ok, fs]
OpenAndWrite(fsys, filename, content, mode, wd) ==
    LET loc == Resolve(filename, wd)
        openable == /\ mode \in {PyStr(<<"w">>), PyStr(<<"a">>)}
                    /\ filename # <<>>
                    /\ Last(filename) # "/"
                    /\ loc # <<>>
                    /\ ~IsDir(fsys, loc)
                    /\ IsDir(fsys, Front(loc))
        old == IF IsFile(fsys, loc) /\ mode = PyStr(<<"a">>) THEN fsys.files[loc] ELSE <<>>
        opened == [fsys EXCEPT !.files = Put(@, loc, old)]
    IN IF ~openable THEN [ok |-> FALSE, fs |-> fsys]
       ELSE IF content.t # "str" THEN [ok |-> FALSE, fs |-> opened]
       ELSE [ok |-> TRUE, fs |-> [fsys EXCEPT !.files = Put(@, loc, old \o content.s)]]

(***************************************************************************)
(* The effect executors.  Each yields [ret, fs, procs]: what the call      *)
(* returns or raises, and the filesystem and process log it leaves.        *)
(***************************************************************************)
Effect(ret, fsys, procs) == [ret |-> ret, fs |-> fsys, procs |-> procs]

TypeError == <<"T","y","p","e","E","r","r","o","r">>
AttributeError == <<"A","t","t","r","i","b","u","t","e","E","r","r","o","r">>

\* read_file
read_file(filename, fsys, procs, wd) ==
    IF filename.t # "str" THEN Effect(Raised(TypeError), fsys, procs)
    ELSE IF ~is_safe_path(filename.s, wd) THEN Effect(Returned(PyNone), fsys, procs)
    ELSE LET loc == Resolve(filename.s, wd)
         IN IF filename.s # <<>> /\ Last(filename.s) # "/" /\ IsFile(fsys, loc)
            THEN Effect(Returned(PyStr(fsys.files[loc])), fsys, procs)
            ELSE Effect(Returned(PyNone), fsys, procs)

\* get_file_metadata (the timestamps, the permission string and the names are left out)
get_file_metadata(filename, fsys, procs, wd) ==
    IF filename.t # "str" THEN Effect(Raised(TypeError), fsys, procs)
    ELSE IF ~is_safe_path(filename.s, wd) THEN Effect(Returned(PyNone), fsys, procs)
    ELSE LET loc == Resolve(filename.s, wd)
         IN IF ~Exists(fsys, loc) THEN Effect(Returned(PyNone), fsys, procs)
            ELSE Effect(Returned(PyDict(
                     [size |-> IF IsFile(fsys, loc) THEN Len(fsys.files[loc]) ELSE 0,
                      is_directory |-> IsDir(fsys, loc),
                      is_file |-> IsFile(fsys, loc)])), fsys, procs)

\* list_directory_contents (os.listdir's order is the system's: the names are kept as sets)
list_directory_contents(directory, fsys, procs, wd) ==
    IF directory.t # "str" THEN Effect(Raised(TypeError), fsys, procs)
    ELSE IF ~is_safe_path(directory.s, wd) THEN Effect(Returned(PyNone), fsys, procs)
    ELSE LET loc == Resolve(directory.s, wd)
             files == {Last(q) : q \in {x \in DOMAIN fsys.files : x # <<>> /\ Front(x) = loc}}
             directories == {Last(q) : q \in {x \in fsys.dirs : x # <<>> /\ Front(x) = loc}}
         IN IF ~IsDir(fsys, loc) THEN Effect(Returned(PyNone), fsys, procs)
            ELSE Effect(Returned(PyDict(
                     [files |-> files, directories |-> directories,
                      total_files |-> Cardinality(files),
                      total_directories |-> Cardinality(directories)])), fsys, procs)

\* write_to_file, once the parent directories are in place: open and write
BoolEffect(written, procs) == Effect(Returned(PyBool(written.ok)), written.fs, procs)

WriteInto(made, filename, content, mode, procs, wd) ==
    IF ~made.ok THEN Effect(Returned(PyBool(FALSE)), made.fs, procs)
    ELSE BoolEffect(OpenAndWrite(made.fs, filename, content, mode, wd), procs)

\* if directory and not os.path.exists(directory): os.makedirs(directory)
MakeParent(fsys, directory, wd) ==
    IF directory # <<>> /\ ~Exists(fsys, Resolve(directory, wd))
    THEN MakeDirs(fsys, directory, wd, FALSE)
    ELSE [ok |-> TRUE, fs |-> fsys]

\* write_to_file
write_to_file(filename, content, mode, fsys, procs, wd) ==
    IF filename.t # "str" THEN Effect(Raised(TypeError), fsys, procs)
    ELSE IF ~is_safe_path(filename.s, wd) THEN Effect(Returned(PyBool(FALSE)), fsys, procs)
    ELSE WriteInto(MakeParent(fsys, DirName(filename.s), wd),
                   filename.s, content, mode, procs, wd)

\* run_command; rc is the exit code the subprocess ends with
run_command(command, rc, fsys, procs, wd) ==
    IF command.t # "str" THEN Effect(Raised(AttributeError), fsys, procs)
    ELSE IF ~is_safe_command(command.s) THEN Effect(Returned(PyNone), fsys, procs)
    ELSE Effect(Returned(PyDict([stdout |-> <<>>, stderr |-> <<>>, returncode |-> rc])),
                fsys, Append(procs, command.s))

\* create_directory, os.makedirs called without exist_ok
create_directory_strict(directory_name, fsys, procs, wd) ==
    IF directory_name.t # "str" THEN Effect(Raised(TypeError), fsys, procs)
    ELSE IF ~is_safe_path(directory_name.s, wd)
         THEN Effect(Returned(PyBool(FALSE)), fsys, procs)
    ELSE BoolEffect(MakeDirs(fsys, directory_name.s, wd, FALSE), procs)

\* create_directory
create_directory(directory_name, fsys, procs, wd) ==
    IF directory_name.t # "str" THEN Effect(Raised(TypeError), fsys, procs)
    ELSE IF ~is_safe_path(directory_name.s, wd)
         THEN Effect(Returned(PyBool(FALSE)), fsys, procs)
    ELSE BoolEffect(MakeDirs(fsys, directory_name.s, wd, TRUE), procs)

(***************************************************************************)
(* Inputs.                                                                 *)
(***************************************************************************)
\* working directories
Cwds == {<<"/", "w", "/", "p">>, <<"/", "w">>, <<"/">>}

\* candidate paths of the guard: up to MaxPathPieces of these pieces, concatenated
PathPieces == {<<"/", "w">>, <<"/", "p">>, <<"-", "o">>, <<"/", "x">>, <<"/", ".", ".">>, <<".", ".">>, <<"/">>}
\* (a leading "//" is left out: what it names is implementation-defined in POSIX)
PathInputs ==
    {p \in {Concat(ps) : ps \in SeqsUpTo(PathPieces, MaxPathPieces)} :
        ~StartsWith(p, <<"/", "/">>)}

\* command strings of the guard: up to MaxCmdPieces of these pieces, concatenated
CmdPieces == {<<"s", "u", "d", "o">>, <<"S", "u", "D", "o">>, <<"k", "u">>, <<"e", "c", "h", "o">>, <<" ">>, <<"\t">>}
CmdInputs == {Concat(ps) : ps \in SeqsUpTo(CmdPieces, MaxCmdPieces)}

\* exit codes a subprocess ends with
ExitCodes == {0, 1}

\* the filesystem a run starts from: the working directory and its ancestors
InitFs(wd) == [dirs |-> Prefixes(Resolve(wd, wd)), files |-> <<>>]

NoCall == [fn |-> "", args |-> <<>>, done |-> TRUE, ret |-> Returned(PyNone)]
PendingCall(fn, args) == [fn |-> fn, args |-> args, done |-> FALSE, ret |-> Returned(PyNone)]
Done(c, ret) == [c EXCEPT !.done = TRUE, !.ret = ret]

\* no generate_project session is running
SessionIdle ==
    /\ pc = "idle"
    /\ step = 0
    /\ messages = <<>>
    /\ actions_taken = <<>>
    /\ generated_files = <<>>
    /\ generated_dirs = <<>>
    /\ outcome = "none"
    /\ calls = 0
    /\ dispatched = 0
    /\ result = PyNone

(***************************************************************************)
(* SpecGuard: one call of a guard predicate, or of run_command, on an      *)
(* input drawn from the bounded input sets.                                *)
(***************************************************************************)
GuardCalls ==
    {PendingCall("is_safe_path", <<p>>) : p \in PathInputs}
    \cup {PendingCall("is_safe_command", <<c>>) : c \in CmdInputs}
    \cup {PendingCall("run_command", <<c>>) : c \in CmdInputs}

InitGuard ==
    /\ cwd \in Cwds
    /\ fs = InitFs(cwd)
    /\ processes = <<>>
    /\ call \in GuardCalls
    /\ SessionIdle

CallIsSafePath ==
    /\ call.fn = "is_safe_path" /\ ~call.done
    /\ call' = Done(call, Returned(PyBool(is_safe_path(call.args[1], cwd))))
    /\ UNCHANGED <<cwd, fs, processes, sessionVars>>

CallIsSafeCommand ==
    /\ call.fn = "is_safe_command" /\ ~call.done
    /\ call' = Done(call, Returned(PyBool(is_safe_command(call.args[1]))))
    /\ UNCHANGED <<cwd, fs, processes, sessionVars>>

CallRunCommand(rc) ==
    /\ call.fn = "run_command" /\ ~call.done
    /\ LET e == run_command(PyStr(call.args[1]), rc, fs, processes, cwd)
       IN /\ call' = Done(call, e.ret)
          /\ fs' = e.fs
          /\ processes' = e.procs
    /\ UNCHANGED <<cwd, sessionVars>>

NextGuard ==
    \/ CallIsSafePath
    \/ CallIsSafeCommand
    \/ \E rc \in ExitCodes : CallRunCommand(rc)

SpecGuard == InitGuard /\ [][NextGuard]_vars

(***************************************************************************)
(* SpecExec: any sequence of write_to_file and create_directory calls on   *)
(* one filesystem, with working directory /w/p.                            *)
(***************************************************************************)
ExecCwd == <<"/", "w", "/", "p">>

\* path arguments: safe ones, one that leaves the root through a sibling whose name
\* begins with the root's, ones that leave it otherwise, and a missing argument
ExecFilePaths == {PyStr(<<"s", "/", "x">>), PyStr(<<".", ".", "/", "p", "-", "o", "/", "x">>), PyStr(<<"/", "e", "/", "x">>), PyNone}
ExecDirPaths == {PyStr(<<"s">>), PyStr(<<"s", "/", "x">>), PyStr(<<".", ".", "/", "p", "-", "o">>), PyStr(<<".", ".", "/", "q">>), PyNone}
ExecContents == {PyStr(<<"a">>), PyStr(<<"b">>), PyNone}
ExecModes == {PyStr(<<"w">>), PyStr(<<"a">>)}

\* the longest file content the runs build up (append mode grows a file without limit)
MaxContentLen == 2

ContentsBounded(fsys) == \A f \in DOMAIN fsys.files : Len(fsys.files[f]) <= MaxContentLen

InitExec ==
    /\ cwd = ExecCwd
    /\ fs = InitFs(cwd)
    /\ processes = <<>>
    /\ call = NoCall
    /\ SessionIdle

\* the executor's effect becomes the state; call records the call and what it gave
Apply(fn, args, e) ==
    /\ ContentsBounded(e.fs)
    /\ call' = Done(PendingCall(fn, args), e.ret)
    /\ fs' = e.fs
    /\ processes' = e.procs
    /\ UNCHANGED <<cwd, sessionVars>>

WriteToFile(filename, content, mode) ==
    Apply("write_to_file", <<filename, content, mode>>,
          write_to_file(filename, content, mode, fs, processes, cwd))

CreateDirectory(directory_name) ==
    Apply("create_directory", <<directory_name>>,
          create_directory(directory_name, fs, processes, cwd))

NextExec ==
    \/ \E f \in ExecFilePaths, c \in ExecContents, m \in ExecModes : WriteToFile(f, c, m)
    \/ \E d \in ExecDirPaths : CreateDirectory(d)

SpecExec == InitExec /\ [][NextExec]_vars

(***************************************************************************)
(* The dispatcher: ProjectGenerator._handle_tool_calls.                    *)
(*                                                                         *)
(* A JSON text is kept as the value it encodes: json.dumps wraps a value,  *)
(* json.loads unwraps it, and a text that does not decode has no value.    *)
(***************************************************************************)
JSONDecodeError == <<"J", "S", "O", "N", "D", "e", "c", "o", "d", "e", "E", "r", "r", "o", "r">>

\* json.dumps
JsonDumps(v) == [json |-> v]

\* a text json.loads cannot decode
MalformedJson == [text |-> <<"{">>]

\* json.loads
JsonLoads(text) ==
    IF "json" \in DOMAIN text THEN Returned(text.json) ELSE Raised(JSONDecodeError)

\* dict.get(key, default)
Get(d, key, default) == IF key \in DOMAIN d THEN d[key] ELSE default

\* a tool call of an assistant message: tool_call.id, tool_call.function.name,
\* tool_call.function.arguments
ToolCall(id, name, arguments) == [id |-> id, name |-> name, arguments |-> arguments]

\* response_content = {"success": success}
SuccessFlag(e) ==
    IF e.ret.raised THEN e
    ELSE [e EXCEPT !.ret = Returned(PyDict([success |-> e.ret.value.b]))]

\* the branch of the if/elif chain, a write without mode taken as an append
BranchAppending(function_name, function_args, rc, fsys, procs, wd) ==
    CASE function_name = "read_file" ->
             read_file(Get(function_args, "filename", PyNone), fsys, procs, wd)
      [] function_name = "get_file_metadata" ->
             get_file_metadata(Get(function_args, "filename", PyNone), fsys, procs, wd)
      [] function_name = "list_directory_contents" ->
             list_directory_contents(Get(function_args, "directory", PyStr(Dot)),
                                     fsys, procs, wd)
      [] function_name = "write_to_file" ->
             SuccessFlag(write_to_file(Get(function_args, "filename", PyNone),
                                       Get(function_args, "content", PyNone),
                                       Get(function_args, "mode", PyStr(<<"a">>)),
                                       fsys, procs, wd))
      [] function_name = "run_command" ->
             run_command(Get(function_args, "command", PyNone), rc, fsys, procs, wd)
      [] function_name = "create_directory" ->
             SuccessFlag(create_directory(Get(function_args, "directory_name", PyNone),
                                          fsys, procs, wd))
      [] OTHER -> Effect(Returned(PyNone), fsys, procs)

\* the branch of the if/elif chain: the executor's effect and response_content
Branch(function_name, function_args, rc, fsys, procs, wd) ==
    CASE function_name = "read_file" ->
             read_file(Get(function_args, "filename", PyNone), fsys, procs, wd)
      [] function_name = "get_file_metadata" ->
             get_file_metadata(Get(function_args, "filename", PyNone), fsys, procs, wd)
      [] function_name = "list_directory_contents" ->
             list_directory_contents(Get(function_args, "directory", PyStr(Dot)),
                                     fsys, procs, wd)
      [] function_name = "write_to_file" ->
             SuccessFlag(write_to_file(Get(function_args, "filename", PyNone),
                                       Get(function_args, "content", PyNone),
                                       Get(function_args, "mode", PyStr(<<"w">>)),
                                       fsys, procs, wd))
      [] function_name = "run_command" ->
             run_command(Get(function_args, "command", PyNone), rc, fsys, procs, wd)
      [] function_name = "create_directory" ->
             SuccessFlag(create_directory(Get(function_args, "directory_name", PyNone),
                                          fsys, procs, wd))
      [] OTHER -> Effect(Returned(PyNone), fsys, procs)

\* the entry appended to tool_responses, with every call's entry under one fixed id
ToolResponseFixedId(tool_call, response_content) ==
    [tool_call_id |-> "call_0", output |-> JsonDumps(response_content)]

\* the entry appended to tool_responses
ToolResponse(tool_call, response_content) ==
    [tool_call_id |-> tool_call.id, output |-> JsonDumps(response_content)]

\* the for loop, from the i-th tool call on: [ret, fs, procs], ret the list returned
\* or the exception that left the function
RECURSIVE HandleFrom(_, _, _, _, _, _, _)

\* the rest of the loop after the i-th call's branch gave e
HandleNext(tool_calls, i, rc, tool_responses, e, wd) ==
    IF e.ret.raised THEN e
    ELSE HandleFrom(tool_calls, i + 1, rc,
                    Append(tool_responses, ToolResponse(tool_calls[i], e.ret.value)),
                    e.fs, e.procs, wd)

\* the i-th call, its arguments decoded (or not)
HandleOne(tool_calls, i, rc, tool_responses, loaded, fsys, procs, wd) ==
    IF loaded.raised THEN Effect(loaded, fsys, procs)
    ELSE HandleNext(tool_calls, i, rc, tool_responses,
                    Branch(tool_calls[i].name, loaded.value.d, rc, fsys, procs, wd), wd)

HandleFrom(tool_calls, i, rc, tool_responses, fsys, procs, wd) ==
    IF i > Len(tool_calls) THEN Effect(Returned(tool_responses), fsys, procs)
    ELSE HandleOne(tool_calls, i, rc, tool_responses,
                   JsonLoads(tool_calls[i].arguments), fsys, procs, wd)

handle_tool_calls(tool_calls, rc, fsys, procs, wd) ==
    HandleFrom(tool_calls, 1, rc, <<>>, fsys, procs, wd)

(***************************************************************************)
(* SpecDispatch: one call of _handle_tool_calls on a batch of up to        *)
(* MaxBatch invocations, with working directory /w/p.                      *)
(***************************************************************************)
Args(d) == JsonDumps(PyDict(d))

DispatchIds == {"call_1", "call_2"}

DispatchRequests ==
    { <<"read_file", Args([filename |-> PyStr(<<"s", "/", "x">>)])>>,
      <<"get_file_metadata", Args([filename |-> PyStr(<<"s">>)])>>,
      <<"list_directory_contents", Args(<<>>)>>,
      <<"write_to_file", Args([filename |-> PyStr(<<"s", "/", "x">>), content |-> PyStr(<<"a">>)])>>,
      <<"write_to_file", Args([filename |-> PyStr(<<"/", "e", "/", "x">>), content |-> PyStr(<<"a">>),
                               mode |-> PyStr(<<"a">>)])>>,
      <<"write_to_file", Args([content |-> PyStr(<<"a">>)])>>,
      <<"run_command", Args([command |-> PyStr(<<"e", "c", "h", "o">>)])>>,
      <<"run_command", Args([command |-> PyStr(<<"s", "u", "d", "o", " ", "e", "c", "h", "o">>)])>>,
      <<"create_directory", Args([directory_name |-> PyStr(<<"s">>)])>>,
      <<"create_directory", MalformedJson>>,
      <<"delete_file", Args([filename |-> PyStr(<<"s", "/", "x">>)])>> }

DispatchInvocations ==
    {ToolCall(id, r[1], r[2]) : id \in DispatchIds, r \in DispatchRequests}

InitDispatch ==
    /\ cwd = ExecCwd
    /\ fs = InitFs(cwd)
    /\ processes = <<>>
    /\ call \in {PendingCall("_handle_tool_calls", <<b>>) :
                    b \in SeqsUpTo(DispatchInvocations, MaxBatch)}
    /\ SessionIdle

\* the call returns (or raises) and leaves its effect
Finish(e) ==
    /\ call' = Done(call, e.ret)
    /\ fs' = e.fs
    /\ processes' = e.procs
    /\ UNCHANGED <<cwd, sessionVars>>

HandleToolCalls(rc) ==
    /\ call.fn = "_handle_tool_calls" /\ ~call.done
    /\ Finish(handle_tool_calls(call.args[1], rc, fs, processes, cwd))

NextDispatch == \E rc \in ExitCodes : HandleToolCalls(rc)

SpecDispatch == InitDispatch /\ [][NextDispatch]_vars

(***************************************************************************)
(* The orchestration loop: ProjectGenerator.generate_project.              *)
(***************************************************************************)
max_steps == 25

\* a message of self.messages
Msg(role, content, tool_calls, tool_call_id) ==
    [role |-> role, content |-> content, tool_calls |-> tool_calls,
     tool_call_id |-> tool_call_id]

\* the fixed prompt texts; the program never looks into them, so each is kept whole,
\* as a string of one element (the seed prompts are cut to their first words)
SystemPrompt == <<"You are an expert fullstack developer assistant ...">>
UserPrompt == <<"Generate a complete MERN project named 'shop' ...">>
ContinuationPrompt ==
    <<"Please continue with the next steps to complete the project structure.">>
SummaryPrompt ==
    <<"Provide a summary of what you've created including the project structure, files, and key features.">>

SeedMessages ==
    << Msg("system", PyStr(SystemPrompt), <<>>, ""),
       Msg("user", PyStr(UserPrompt), <<>>, "") >>

\* response_message.model_dump()
AssistantMsg(content, tool_calls) == Msg("assistant", content, tool_calls, "")

\* the message appended for one entry of tool_responses
ToolMsg(tool_response) ==
    Msg("tool", tool_response.output, <<>>, tool_response.tool_call_id)

ContinuationMsg == Msg("user", PyStr(ContinuationPrompt), <<>>, "")
SummaryRequestMsg == Msg("user", PyStr(SummaryPrompt), <<>>, "")

\* the condition of the while loop, with the bound included
LoopGuardInclusive == step <= max_steps

\* the condition of the while loop
LoopGuard == step < max_steps

CompletionPhrases ==
    { <<"p", "r", "o", "j", "e", "c", "t", " ", "g", "e", "n", "e", "r", "a", "t",
        "i", "o", "n", " ", "i", "s", " ", "c", "o", "m", "p", "l", "e", "t", "e">>,
      <<"p", "r", "o", "j", "e", "c", "t", " ", "s", "t", "r", "u", "c", "t", "u",
        "r", "e", " ", "i", "s", " ", "n", "o", "w", " ", "c", "o", "m", "p", "l",
        "e", "t", "e">> }

\* the completion test, on the text as the planner typed it
IsCompleteAsTyped(content) == \E ph \in CompletionPhrases : Contains(content, ph)

\* the completion test of the else branch
IsComplete(content) == \E ph \in CompletionPhrases : Contains(Lower(content), ph)

\* the entry of actions_taken the except clause appends, under step 0
ErrorRecordStepZero(st, e) == [step |-> 0, error |-> e]

\* the entry of actions_taken the except clause appends
ErrorRecord(st, e) == [step |-> st, error |-> e]

\* the entry of actions_taken for one tool call and its response
ActionRecord(st, tool_call, tool_response) ==
    [step |-> st, action |-> tool_call.name,
     args |-> JsonLoads(tool_call.arguments).value,
     result |-> JsonLoads(tool_response.output).value]

\* the calls of a batch that name the given tool, in order
CallsOf(tool_calls, name) == SelectSeq(tool_calls, LAMBDA tc : tc.name = name)

\* the argument the tracking loop reads with function_args.get(key)
ArgOf(tc, key) == Get(JsonLoads(tc.arguments).value.d, key, PyNone)

\* what the tracking loop appends to generated_dirs / generated_files / actions_taken
TrackedDirs(tool_calls) ==
    [i \in 1..Len(CallsOf(tool_calls, "create_directory")) |->
        ArgOf(CallsOf(tool_calls, "create_directory")[i], "directory_name")]

\* the filenames of the batch's writes, the newest first
TrackedFilesNewestFirst(tool_calls) ==
    [i \in 1..Len(CallsOf(tool_calls, "write_to_file")) |->
        ArgOf(CallsOf(tool_calls, "write_to_file")
                  [Len(CallsOf(tool_calls, "write_to_file")) + 1 - i], "filename")]

TrackedFiles(tool_calls) ==
    [i \in 1..Len(CallsOf(tool_calls, "write_to_file")) |->
        ArgOf(CallsOf(tool_calls, "write_to_file")[i], "filename")]

\* the tool messages the loop appends for the dispatcher's responses
ToolMsgs(tool_responses) ==
    [i \in 1..Len(tool_responses) |-> ToolMsg(tool_responses[i])]

TrackedActions(st, tool_calls, tool_responses) ==
    [i \in 1..(IF Len(tool_calls) < Len(tool_responses)
               THEN Len(tool_calls) ELSE Len(tool_responses)) |->
        ActionRecord(st, tool_calls[i], tool_responses[i])]

\* the except clause, going on with the next iteration instead of leaving the loop
FailAndContinue(st, e) ==
    /\ actions_taken' = Append(actions_taken, ErrorRecord(st, e))
    /\ UNCHANGED <<pc, outcome>>

\* the except clause: record the error, leave the loop
Fail(st, e) ==
    /\ actions_taken' = Append(actions_taken, ErrorRecord(st, e))
    /\ pc' = "synthesis"
    /\ outcome' = "failed"

\* one iteration whose planner call raises
PlannerError(e) ==
    /\ pc = "loop" /\ LoopGuard
    /\ step' = step + 1
    /\ calls' = calls + 1
    /\ Fail(step + 1, e)
    /\ UNCHANGED <<cwd, fs, processes, call, messages, generated_files, generated_dirs,
                   dispatched, result>>

\* the if branch, e what _handle_tool_calls gave
Dispatched(st, replied, tool_calls, e) ==
    /\ fs' = e.fs
    /\ processes' = e.procs
    /\ IF e.ret.raised
       THEN /\ messages' = replied
            /\ Fail(st, e.ret.error)
            /\ UNCHANGED <<generated_files, generated_dirs>>
       ELSE /\ generated_dirs' = generated_dirs \o TrackedDirs(tool_calls)
            /\ generated_files' = generated_files \o TrackedFiles(tool_calls)
            /\ actions_taken' =
                   actions_taken \o TrackedActions(st, tool_calls, e.ret.value)
            /\ messages' = replied \o ToolMsgs(e.ret.value)
            /\ UNCHANGED <<pc, outcome>>

\* one iteration whose reply carries tool calls
PlanToolCalls(content, tool_calls, rc) ==
    /\ pc = "loop" /\ LoopGuard
    /\ tool_calls # <<>>
    /\ step' = step + 1
    /\ calls' = calls + 1
    /\ dispatched' = dispatched + 1
    /\ Dispatched(step + 1, Append(messages, AssistantMsg(content, tool_calls)),
                  tool_calls, handle_tool_calls(tool_calls, rc, fs, processes, cwd))
    /\ UNCHANGED <<cwd, call, result>>

\* one iteration whose reply carries text and no tool call
PlanText(content) ==
    /\ pc = "loop" /\ LoopGuard
    /\ step' = step + 1
    /\ calls' = calls + 1
    /\ LET replied == Append(messages, AssistantMsg(PyStr(content), <<>>))
       IN IF IsComplete(content)
          THEN /\ messages' = replied
               /\ pc' = "synthesis"
               /\ outcome' = "complete"
          ELSE /\ messages' = Append(replied, ContinuationMsg)
               /\ UNCHANGED <<pc, outcome>>
    /\ UNCHANGED <<cwd, fs, processes, call, actions_taken, generated_files,
                   generated_dirs, dispatched, result>>

\* one iteration whose reply carries neither tool calls nor text (content is None):
\* response_message.content[:100] raises TypeError
PlanNoContent ==
    /\ pc = "loop" /\ LoopGuard
    /\ step' = step + 1
    /\ calls' = calls + 1
    /\ messages' = Append(messages, AssistantMsg(PyNone, <<>>))
    /\ Fail(step + 1, TypeError)
    /\ UNCHANGED <<cwd, fs, processes, call, generated_files, generated_dirs,
                   dispatched, result>>

\* the while condition fails: the step budget is used up
ExitLoop ==
    /\ pc = "loop" /\ ~LoopGuard
    /\ pc' = "synthesis"
    /\ outcome' = "exhausted"
    /\ UNCHANGED <<cwd, fs, processes, call, step, messages, actions_taken,
                   generated_files, generated_dirs, calls, dispatched, result>>

ProjectName == <<"s", "h", "o", "p">>
ProjectType == <<"M", "E", "R", "N">>

\* the dict generate_project returns (generation_time_seconds left out)
SessionSummary(summary) ==
    PyDict([project_name |-> ProjectName,
            project_type |-> ProjectType,
            total_steps |-> step,
            total_files |-> Len(generated_files),
            total_directories |-> Len(generated_dirs),
            files_created |-> generated_files,
            directories_created |-> generated_dirs,
            summary |-> summary,
            actions |-> actions_taken])

\* the final summary call made on the messages as the loop left them
SynthesizeWithoutRequest(summary) ==
    /\ pc = "synthesis"
    /\ result' = Returned(SessionSummary(summary))
    /\ pc' = "returned"
    /\ UNCHANGED <<cwd, fs, processes, call, step, messages, actions_taken,
                   generated_files, generated_dirs, outcome, calls, dispatched>>

\* the final summary call answers: generate_project returns
Synthesize(summary) ==
    /\ pc = "synthesis"
    /\ messages' = Append(messages, SummaryRequestMsg)
    /\ result' = Returned(SessionSummary(summary))
    /\ pc' = "returned"
    /\ UNCHANGED <<cwd, fs, processes, call, step, actions_taken, generated_files,
                   generated_dirs, outcome, calls, dispatched>>

\* the final summary call raises: nothing catches it, generate_project raises
SynthesisError(e) ==
    /\ pc = "synthesis"
    /\ messages' = Append(messages, SummaryRequestMsg)
    /\ result' = Raised(e)
    /\ pc' = "raised"
    /\ UNCHANGED <<cwd, fs, processes, call, step, actions_taken, generated_files,
                   generated_dirs, outcome, calls, dispatched>>

(***************************************************************************)
(* Spec: one generate_project session against a planner that answers each *)
(* call with any of the replies below, or fails.                           *)
(***************************************************************************)
\* the number of replies with tool calls the planner sends in one session
MaxToolTurns == 1

TextWorking ==
    <<"N", "o", "t", " ", "c", "o", "m", "p", "l", "e", "t", "e", ".">>
TextDoneGeneration ==
    <<"T", "h", "e", " ", "P", "r", "o", "j", "e", "c", "t", " ", "G", "e", "n", "e",
      "r", "a", "t", "i", "o", "n", " ", "i", "s", " ", "C", "O", "M", "P", "L", "E",
      "T", "E", ".">>
TextDoneStructure ==
    <<"p", "r", "o", "j", "e", "c", "t", " ", "s", "t", "r", "u", "c", "t", "u", "r",
      "e", " ", "i", "s", " ", "n", "o", "w", " ", "c", "o", "m", "p", "l", "e", "t",
      "e">>

PlannerTexts == {TextWorking, TextDoneGeneration, TextDoneStructure}
SummaryTexts == {TextDoneStructure}
PlannerErrors == {<<"t", "i", "m", "e", "o", "u", "t">>}

\* replies with tool calls: [content, tool_calls]
ReplyMkdir ==
    [content |-> PyNone,
     tool_calls |-> <<ToolCall("call_1", "create_directory",
                               Args([directory_name |-> PyStr(<<"s">>)]))>>]
ReplyWriteRead ==
    [content |-> PyStr(TextDoneGeneration),
     tool_calls |-> <<ToolCall("call_1", "write_to_file",
                               Args([filename |-> PyStr(<<"s", "/", "x">>),
                                     content |-> PyStr(<<"a">>)])),
                      ToolCall("call_2", "read_file",
                               Args([filename |-> PyStr(<<"s", "/", "x">>)]))>>]
ReplyMissingArg ==
    [content |-> PyNone,
     tool_calls |-> <<ToolCall("call_1", "create_directory",
                               Args([directory_name |-> PyStr(<<"s">>)])),
                      ToolCall("call_2", "write_to_file",
                               Args([content |-> PyStr(<<"a">>)]))>>]

\* six invocations the guard refuses, one per operation
ReplyRefused ==
    [content |-> PyNone,
     tool_calls |-> <<ToolCall("call_1", "write_to_file",
                               Args([filename |-> PyStr(<<"/", "e", "/", "x">>),
                                     content |-> PyStr(<<"a">>)])),
                      ToolCall("call_2", "create_directory",
                               Args([directory_name |-> PyStr(<<".", ".", "/", "q">>)])),
                      ToolCall("call_3", "read_file",
                               Args([filename |-> PyStr(<<"/", "e", "/", "x">>)])),
                      ToolCall("call_4", "get_file_metadata",
                               Args([filename |-> PyStr(<<"/", "e", "/", "x">>)])),
                      ToolCall("call_5", "list_directory_contents",
                               Args([directory |-> PyStr(<<"/", "e">>)])),
                      ToolCall("call_6", "run_command",
                               Args([command |-> PyStr(<<"s", "u", "d", "o", " ", "l", "s">>)]))>>]
\* a refused invocation followed by one without its required argument
ReplyRefusedMissingArg ==
    [content |-> PyNone,
     tool_calls |-> <<ToolCall("call_1", "write_to_file",
                               Args([filename |-> PyStr(<<"/", "e", "/", "x">>),
                                     content |-> PyStr(<<"a">>)])),
                      ToolCall("call_2", "run_command", Args(<<>>))>>]
\* a directory, two files in it, one of them written over
ReplyScaffold ==
    [content |-> PyNone,
     tool_calls |-> <<ToolCall("call_1", "create_directory",
                               Args([directory_name |-> PyStr(<<"s">>)])),
                      ToolCall("call_2", "write_to_file",
                               Args([filename |-> PyStr(<<"s", "/", "y">>),
                                     content |-> PyStr(<<"a">>)])),
                      ToolCall("call_3", "write_to_file",
                               Args([filename |-> PyStr(<<"s", "/", "x">>),
                                     content |-> PyStr(<<"a">>)])),
                      ToolCall("call_4", "write_to_file",
                               Args([filename |-> PyStr(<<"s", "/", "x">>),
                                     content |-> PyStr(<<"b">>),
                                     mode |-> PyStr(<<"w">>)]))>>]

ToolReplies ==
    {ReplyMkdir, ReplyWriteRead, ReplyMissingArg, ReplyRefused, ReplyRefusedMissingArg,
     ReplyScaffold}

Init ==
    /\ cwd = ExecCwd
    /\ fs = InitFs(cwd)
    /\ processes = <<>>
    /\ call = NoCall
    /\ pc = "loop"
    /\ step = 0
    /\ messages = SeedMessages
    /\ actions_taken = <<>>
    /\ generated_files = <<>>
    /\ generated_dirs = <<>>
    /\ outcome = "running"
    /\ calls = 0
    /\ dispatched = 0
    /\ result = PyNone

Next ==
    \/ \E e \in PlannerErrors : PlannerError(e)
    \/ \E r \in ToolReplies :
          dispatched < MaxToolTurns /\ PlanToolCalls(r.content, r.tool_calls, 0)
    \/ \E t \in PlannerTexts : PlanText(t)
    \/ PlanNoContent
    \/ ExitLoop
    \/ \E t \in SummaryTexts : Synthesize(t)
    \/ \E e \in PlannerErrors : SynthesisError(e)

Spec == Init /\ [][Next]_vars

(***************************************************************************)
(* Claims about the sandbox guard (checked under SpecGuard).               *)
(***************************************************************************)
\* loc is root or lies below it, component by component
IsWithin(loc, root) ==
    /\ Len(root) <= Len(loc)
    /\ SubSeq(loc, 1, Len(root)) = root

\* C4: is_safe_path(p) is true if and only if the normalised absolute form of p is
\* the working directory or a descendant of it, component by component.
PathContainment ==
    (call.fn = "is_safe_path" /\ call.done) =>
        (call.ret.value.b <=> IsWithin(Resolve(call.args[1], cwd), Resolve(cwd, cwd)))

\* some whitespace-delimited token of the command is 'sudo', whatever its case
HasSudoToken(command) ==
    \E i \in 1..Len(command) :
        /\ i + 3 <= Len(command)
        /\ \A k \in 0..3 : LowerChar(command[i + k]) = Sudo[k + 1]
        /\ (i = 1 \/ command[i - 1] \in Whitespace)
        /\ (i + 3 = Len(command) \/ command[i + 4] \in Whitespace)

\* C6: is_safe_command is false exactly for the commands with a token equal to 'sudo'
\* case-insensitively (a token that merely contains it is safe), and run_command starts
\* no subprocess for a command judged unsafe.
CommandContainment ==
    /\ (call.fn = "is_safe_command" /\ call.done) =>
           (call.ret.value.b = FALSE <=> HasSudoToken(call.args[1]))
    /\ (call.fn = "run_command" /\ call.done) =>
           /\ HasSudoToken(call.args[1]) => (processes = <<>> /\ call.ret.value = PyNone)
           /\ ~HasSudoToken(call.args[1]) => processes = <<call.args[1]>>

\* 'sudoku' was judged safe
CommandContainmentWitness ==
    /\ call.fn = "is_safe_command" /\ call.done
    /\ call.args[1] = <<"s", "u", "d", "o", "k", "u">>
    /\ call.ret.value.b = TRUE

(***************************************************************************)
(* Claims about the executors (checked under SpecExec).                    *)
(***************************************************************************)
\* C5: no file or directory outside the working directory is ever created or modified
\* by write_to_file or create_directory: whatever the filesystem holds beyond what it
\* started with lies within the working directory.
NoEscape ==
    \A loc \in (fs.dirs \cup DOMAIN fs.files) \ InitFs(cwd).dirs :
        IsWithin(loc, Resolve(cwd, cwd))

(***************************************************************************)
(* Claims about the dispatcher (checked under SpecDispatch).               *)
(***************************************************************************)
\* C7: for every batch of N tool invocations _handle_tool_calls returns exactly N
\* results, the i-th carrying the identifier of the i-th invocation.
DispatcherCorrectness ==
    (call.fn = "_handle_tool_calls" /\ call.done) =>
        /\ ~call.ret.raised
        /\ Len(call.ret.value) = Len(call.args[1])
        /\ \A i \in 1..Len(call.args[1]) :
               call.ret.value[i].tool_call_id = call.args[1][i].id

(***************************************************************************)
(* Claims about the orchestration loop (checked under Spec).               *)
(***************************************************************************)
IsError(record) == "error" \in DOMAIN record

\* an in-loop planner call raised (the except clause recorded the planner's error)
PlannerFailed ==
    \E i \in 1..Len(actions_taken) :
        IsError(actions_taken[i]) /\ actions_taken[i].error \in PlannerErrors

\* C1: whenever the planner never errors and never sends a text-only reply with a
\* completion phrase, the loop is left only with the budget exhausted, after exactly
\* max_steps in-loop planner calls; no further in-loop call is ever made.
BudgetTermination ==
    /\ calls <= max_steps
    /\ (pc # "loop" /\ outcome # "complete" /\ ~PlannerFailed) =>
           (outcome = "exhausted" /\ calls = max_steps /\ step = max_steps)

\* C2: no fault ever propagates out of generate_project.
NoFaultEscapes == pc # "raised"

\* C3: when the final summary call fails, generate_project still returns the session
\* summary, its summary field the error text, the step count, the lists and the action
\* log as they stood.
SynthesisFailureTolerated ==
    [][\A e \in PlannerErrors :
          SynthesisError(e) =>
              (pc' = "returned" /\ result' = Returned(SessionSummary(PyStr(e))))]_vars

\* C8: every tool message answers a tool call of the assistant message of its own turn:
\* the nearest assistant message before it, with only tool messages in between, carries
\* at that position a tool call with the same identifier.
ToolResultsAnswerTheirTurn ==
    \A i \in 1..Len(messages) :
        messages[i].role = "tool" =>
            \E j \in 1..(i - 1) :
                /\ messages[j].role = "assistant"
                /\ \A m \in (j + 1)..(i - 1) : messages[m].role = "tool"
                /\ i - j <= Len(messages[j].tool_calls)
                /\ messages[j].tool_calls[i - j].id = messages[i].tool_call_id

\* the second tool call of a batch has been answered
ToolResultsWitness ==
    \E i \in 1..Len(messages) :
        messages[i].role = "tool" /\ messages[i].tool_call_id = "call_2"

\* C9: an in-loop planner call that fails (a call made, no reply appended) puts the loop
\* in the failed outcome and appends exactly one error record with the current step and
\* the error text; after the failed outcome no in-loop planner call is made, no batch
\* is dispatched and nothing is added to the action log.
PlannerFailureIsTerminal ==
    /\ [](outcome = "failed" =>
            /\ pc # "loop"
            /\ actions_taken # <<>>
            /\ IsError(Last(actions_taken))
            /\ Last(actions_taken).step = step
            /\ Cardinality({i \in 1..Len(actions_taken) : IsError(actions_taken[i])}) = 1)
    /\ [][(calls' = calls + 1 /\ messages' = messages) =>
            /\ outcome' = "failed"
            /\ pc' = "synthesis"
            /\ \E e \in PlannerErrors :
                   actions_taken' = Append(actions_taken, [step |-> step', error |-> e])]_vars
    /\ [][outcome = "failed" =>
            /\ calls' = calls
            /\ dispatched' = dispatched
            /\ actions_taken' = actions_taken
            /\ outcome' = "failed"]_vars

\* a planner call failed after some steps that went well
PlannerFailureWitness ==
    /\ outcome = "failed"
    /\ PlannerFailed
    /\ step > 1
    /\ dispatched > 0

\* the text holds a completion phrase, whatever the case of its letters
HasPhrase(text) ==
    \E ph \in CompletionPhrases :
        \E i \in 1..Len(text) :
            /\ i + Len(ph) - 1 <= Len(text)
            /\ \A k \in 1..Len(ph) : LowerChar(text[i + k - 1]) = ph[k]

\* C10: on a text-only reply, a completion phrase (in any case) completes the loop with
\* nothing appended after the reply and no further in-loop planner call; any other text
\* appends exactly one user-role continuation message and the loop goes on.
TextReplyHandling ==
    /\ [][(/\ calls' = calls + 1
           /\ Len(messages') > Len(messages)
           /\ messages'[Len(messages) + 1].tool_calls = <<>>
           /\ messages'[Len(messages) + 1].content.t = "str") =>
            LET reply == messages'[Len(messages) + 1]
            IN IF HasPhrase(reply.content.s)
               THEN /\ messages' = Append(messages, reply)
                    /\ pc' = "synthesis"
                    /\ outcome' = "complete"
               ELSE /\ messages' = messages \o <<reply, ContinuationMsg>>
                    /\ pc' = "loop"
                    /\ outcome' = outcome]_vars
    /\ [][outcome = "complete" => (calls' = calls /\ outcome' = "complete")]_vars

\* a reply spelling the phrase in capitals completed the loop
TextReplyWitness ==
    /\ outcome = "complete"
    /\ messages[Len(messages)].role = "assistant"
    /\ messages[Len(messages)].content = PyStr(TextDoneGeneration)
    /\ \E i \in 1..Len(messages) : messages[i] = ContinuationMsg

(***************************************************************************)
(* Claims about faults and refusals of single invocations (checked under   *)
(* Spec).                                                                  *)
(***************************************************************************)
\* the message at position j is a planner reply that carries tool calls
CarriesToolCalls(j) == messages[j].role = "assistant" /\ messages[j].tool_calls # <<>>

\* the k-th tool call of the reply at position j has its tool message
Answered(j, k) ==
    /\ j + k <= Len(messages)
    /\ messages[j + k].role = "tool"
    /\ messages[j + k].tool_call_id = messages[j].tool_calls[k].id

\* C11: whatever operation name and argument mapping an invocation carries (a required
\* argument missing, arguments that do not decode), it gets a tool result; no fault of
\* one invocation leaves the dispatcher or puts the session in the failed outcome.
InvocationFaultsContained ==
    \A j \in 1..Len(messages) :
        CarriesToolCalls(j) =>
            /\ \A k \in 1..Len(messages[j].tool_calls) : Answered(j, k)
            /\ ~(outcome = "failed" /\ j = Len(messages))

\* the decoded arguments of a tool call (no mapping when they do not decode)
ArgsOf(tc) == IF "json" \in DOMAIN tc.arguments THEN tc.arguments.json.d ELSE <<>>

\* the tool call names a path operation and the guard says no to its path
PathDenied(tc, key) ==
    /\ key \in DOMAIN ArgsOf(tc)
    /\ ArgsOf(tc)[key].t = "str"
    /\ ~is_safe_path(ArgsOf(tc)[key].s, cwd)

\* the tool call runs a command and the guard says no to it
CommandDenied(tc) ==
    /\ tc.name = "run_command"
    /\ "command" \in DOMAIN ArgsOf(tc)
    /\ ArgsOf(tc).command.t = "str"
    /\ ~is_safe_command(ArgsOf(tc).command.s)

Denied(tc) ==
    \/ tc.name \in {"read_file", "get_file_metadata", "write_to_file"}
          /\ PathDenied(tc, "filename")
    \/ tc.name = "list_directory_contents" /\ PathDenied(tc, "directory")
    \/ tc.name = "create_directory" /\ PathDenied(tc, "directory_name")
    \/ CommandDenied(tc)

\* the value an operation gives when it fails
FailureValue(name) ==
    IF name \in {"write_to_file", "create_directory"}
    THEN PyDict([success |-> FALSE]) ELSE PyNone

\* what the denied tool call asked for is not there: its path names nothing on the
\* filesystem, its command is not among the processes run
NoEffectOf(tc) ==
    /\ \A key \in {"filename", "directory", "directory_name"} :
           PathDenied(tc, key) => ~Exists(fs, Resolve(ArgsOf(tc)[key].s, cwd))
    /\ CommandDenied(tc) => ~InSeq(ArgsOf(tc).command.s, processes)

\* C12: an invocation the guard denies has no effect and gets a tool message holding the
\* operation's failure value (success false for write / create directory, None for the
\* others), and the session does not fail on it.
GuardRefusalSurfaced ==
    \A j \in 1..Len(messages) :
        CarriesToolCalls(j) =>
            \A k \in 1..Len(messages[j].tool_calls) :
                Denied(messages[j].tool_calls[k]) =>
                    /\ NoEffectOf(messages[j].tool_calls[k])
                    /\ Answered(j, k)
                    /\ messages[j + k].content =
                           JsonDumps(FailureValue(messages[j].tool_calls[k].name))
                    /\ ~(outcome = "failed" /\ j = Len(messages))

(***************************************************************************)
(* Claims about the end of a session and its summary (checked under Spec). *)
(***************************************************************************)
TerminalOutcomes == {"complete", "exhausted", "failed"}

\* the positions of the summary request in the conversation
SummaryRequests == {i \in 1..Len(messages) : messages[i] = SummaryRequestMsg}

\* C13: once the loop has ended in one of the three terminal outcomes, exactly one final
\* summary call is made, on the conversation extended by one summary request, before
\* generate_project ends; after the terminal outcome no in-loop planner call is made
\* and no batch is dispatched.
OneFinalSynthesis ==
    /\ [](/\ (pc = "loop") = (outcome = "running")
          /\ pc \in {"loop", "synthesis"} => SummaryRequests = {}
          /\ pc \in {"returned", "raised"} => SummaryRequests = {Len(messages)}
          /\ pc = "returned" => outcome \in TerminalOutcomes /\ ~result.raised)
    /\ [][(outcome \in TerminalOutcomes) =>
            (/\ calls' = calls
             /\ dispatched' = dispatched
             /\ fs' = fs
             /\ processes' = processes
             /\ outcome' = outcome
             /\ pc = "synthesis"
             /\ pc' \in {"returned", "raised"}
             /\ messages' = Append(messages, SummaryRequestMsg))]_vars

\* the final summary was given after each of the three outcomes is reachable; this one
\* is the return after the step budget ran out
OneFinalSynthesisWitness ==
    /\ pc = "returned"
    /\ outcome = "exhausted"
    /\ messages[Len(messages)] = SummaryRequestMsg

\* the tool calls the planner issued in the session, in order
RECURSIVE IssuedFrom(_)
IssuedFrom(j) ==
    IF j > Len(messages) THEN <<>> ELSE messages[j].tool_calls \o IssuedFrom(j + 1)

Issued == IssuedFrom(1)

IssuedDirs == SelectSeq(Issued, LAMBDA tc : tc.name = "create_directory")
IssuedWrites == SelectSeq(Issued, LAMBDA tc : tc.name = "write_to_file")

\* every create_directory and write_to_file of the session got the result success = true
AllSucceeded ==
    \A j \in 1..Len(messages) :
        CarriesToolCalls(j) =>
            \A k \in 1..Len(messages[j].tool_calls) :
                messages[j].tool_calls[k].name \in {"create_directory", "write_to_file"} =>
                    /\ Answered(j, k)
                    /\ messages[j + k].content = JsonDumps(PyDict([success |-> TRUE]))

\* the i-th of the writes is in overwrite mode and no later write goes to its file
LastOverwrite(writes, i) ==
    /\ Get(ArgsOf(writes[i]), "mode", PyStr(<<"w">>)) = PyStr(<<"w">>)
    /\ \A n \in (i + 1)..Len(writes) :
           Resolve(ArgsOf(writes[n]).filename.s, cwd)
               # Resolve(ArgsOf(writes[i]).filename.s, cwd)

\* the summary and the filesystem agree with the create_directory calls dirs and the
\* write_to_file calls writes
RecordedAs(dirs, writes) ==
    /\ result.value.d.directories_created =
           [i \in 1..Len(dirs) |-> ArgsOf(dirs[i]).directory_name]
    /\ result.value.d.files_created =
           [i \in 1..Len(writes) |-> ArgsOf(writes[i]).filename]
    /\ \A i \in 1..Len(writes) :
           LastOverwrite(writes, i) =>
               /\ IsFile(fs, Resolve(ArgsOf(writes[i]).filename.s, cwd))
               /\ fs.files[Resolve(ArgsOf(writes[i]).filename.s, cwd)]
                      = ArgsOf(writes[i]).content.s

StrFilePaths == {f \in ExecFilePaths : f.t = "str"}
StrDirPaths == {d \in ExecDirPaths : d.t = "str"}
StrContents == {c \in ExecContents : c.t = "str"}
Succeeded(e) == e.ret = Returned(PyBool(TRUE))

\* what the file at a path holds (nothing when there is no file)
ContentAt(fsys, f) ==
    IF IsFile(fsys, Resolve(f.s, cwd)) THEN fsys.files[Resolve(f.s, cwd)] ELSE <<>>

\* write_to_file from the filesystem fsys
Written(f, c, mode, fsys) == write_to_file(f, c, PyStr(mode), fsys, processes, cwd)

\* e1 is what one overwrite of f with c gave: the file holds c, and the same write
\* again gives the same result and the same filesystem
OverwriteAgain(f, c, e1) ==
    /\ Succeeded(e1) => ContentAt(e1.fs, f) = c.s
    /\ Written(f, c, <<"w">>, e1.fs) = e1

\* e1 is what appending c1 to f gave, e2 what appending c2 after it gave
AppendedInOrder(f, c1, c2, e1, e2) ==
    (Succeeded(e1) /\ Succeeded(e2)) =>
        /\ ContentAt(e2.fs, f) = ContentAt(fs, f) \o c1.s \o c2.s
        /\ Len(ContentAt(e2.fs, f)) = Len(ContentAt(fs, f)) + Len(c1.s) + Len(c2.s)

AppendAgain(f, c1, c2, e1) ==
    AppendedInOrder(f, c1, c2, e1, Written(f, c2, <<"a">>, e1.fs))

\* C15: from every filesystem the runs reach, writing the same content twice to a file
\* in overwrite mode leaves what one write leaves; two writes in append mode leave the
\* earlier content followed by the two contents in call order.
WriteIdempotence ==
    \A f \in StrFilePaths : \A c \in StrContents :
        /\ OverwriteAgain(f, c, Written(f, c, <<"w">>, fs))
        /\ \A c2 \in StrContents : AppendAgain(f, c, c2, Written(f, c, <<"a">>, fs))

\* s/x was appended to twice, the second call being the last one made
WriteIdempotenceWitness ==
    /\ call = Done(PendingCall("write_to_file",
                               <<PyStr(<<"s", "/", "x">>), PyStr(<<"b">>), PyStr(<<"a">>)>>),
                   Returned(PyBool(TRUE)))
    /\ ContentAt(fs, PyStr(<<"s", "/", "x">>)) = <<"a", "b">>

SafeDirPaths == {d \in StrDirPaths : is_safe_path(d.s, cwd)}

\* create_directory from the filesystem fsys
Created(d, fsys) == create_directory(d, fsys, processes, cwd)

\* a file stands at the path or at one of its ancestors
BlockedByFile(d) == \E q \in Prefixes(Resolve(d.s, cwd)) : IsFile(fs, q)

\* e1 is what one create_directory(d) gave: it succeeded, and the same call again
\* succeeds and leaves the same filesystem
CreateAgain(d, e1) ==
    /\ Succeeded(e1)
    /\ Created(d, e1.fs) = e1

\* the first call added the path and its missing ancestors and nothing else
CreatedOnce(d, e1) ==
    /\ e1.fs.dirs = fs.dirs \cup Prefixes(Resolve(d.s, cwd))
    /\ e1.fs.files = fs.files

\* C16 as stated: from every filesystem, for every path the guard accepts,
\* create_directory succeeds twice and the second call changes nothing.
DirectoryIdempotenceAnyPath ==
    \A d \in SafeDirPaths : CreateAgain(d, Created(d, fs))

\* C16, amended: for every path the guard accepts with no file at the path or at an
\* ancestor, create_directory succeeds twice, the first call adds the path and its
\* missing ancestors only, the second changes nothing; with a file in the way the call
\* returns False and changes nothing.
DirectoryIdempotence ==
    \A d \in SafeDirPaths :
        IF BlockedByFile(d)
        THEN Created(d, fs) = Effect(Returned(PyBool(FALSE)), fs, processes)
        ELSE /\ CreateAgain(d, Created(d, fs))
             /\ CreatedOnce(d, Created(d, fs))

\* the nested directory s/x was made by the last call, s with it
DirectoryIdempotenceWitness ==
    /\ call = Done(PendingCall("create_directory", <<PyStr(<<"s", "/", "x">>)>>),
                   Returned(PyBool(TRUE)))
    /\ IsDir(fs, <<<<"w">>, <<"p">>, <<"s">>, <<"x">>>>)
    /\ IsDir(fs, <<<<"w">>, <<"p">>, <<"s">>>>)

(***************************************************************************)
(* Claims about the session record (checked under Spec).                   *)
(***************************************************************************)
\* the dict a returned session gave to its caller
Summary == result.value.d

\* C17: the summary lists only files and directories the session created: every entry
\* of files_created names a file that is there, every entry of directories_created a
\* directory that is there, and the totals count these entries.
OnlyCreatedListed ==
    pc = "returned" =>
        /\ \A i \in 1..Len(Summary.files_created) :
               /\ Summary.files_created[i].t = "str"
               /\ IsFile(fs, Resolve(Summary.files_created[i].s, cwd))
        /\ \A i \in 1..Len(Summary.directories_created) :
               /\ Summary.directories_created[i].t = "str"
               /\ IsDir(fs, Resolve(Summary.directories_created[i].s, cwd))
        /\ Summary.total_files = Len(Summary.files_created)
        /\ Summary.total_directories = Len(Summary.directories_created)

\* the argument an operation cannot do without ("" when there is none)
RequiredArg(name) ==
    CASE name \in {"read_file", "get_file_metadata", "write_to_file"} -> "filename"
      [] name = "create_directory" -> "directory_name"
      [] name = "run_command" -> "command"
      [] OTHER -> ""

\* handling the tool call raises: its arguments do not decode, or the required one is
\* missing
Faulty(tc) ==
    \/ "json" \notin DOMAIN tc.arguments
    \/ /\ RequiredArg(tc.name) # ""
       /\ Get(ArgsOf(tc), RequiredArg(tc.name), PyNone).t # "str"

\* the k-th tool call of the reply at position j was handled to its end: neither it
\* nor a call before it in the batch raised
RanToEnd(j, k) == \A n \in 1..k : ~Faulty(messages[j].tool_calls[n])

\* the action log of the summary holds a record of the tool call
Logged(tc) ==
    \E i \in 1..Len(Summary.actions) :
        /\ ~IsError(Summary.actions[i])
        /\ Summary.actions[i].action = tc.name
        /\ Summary.actions[i].args = tc.arguments.json

\* C18: in a returned session every invocation that was handled has its tool message in
\* the conversation and its record in the action log, those handled before a later
\* invocation of the same batch raised included.
EveryRunRecorded ==
    pc = "returned" =>
        \A j \in 1..Len(messages) :
            CarriesToolCalls(j) =>
                \A k \in 1..Len(messages[j].tool_calls) :
                    RanToEnd(j, k) =>
                        /\ Answered(j, k)
                        /\ Logged(messages[j].tool_calls[k])

IsPrefix(a, b) == Len(a) <= Len(b) /\ SubSeq(b, 1, Len(a)) = a

\* C19: the conversation starts with the two seed messages and every step of a session
\* only appends to it; the action log too is only appended to, and the step numbers
\* along it never go down.
AppendOnly ==
    /\ [](/\ IsPrefix(SeedMessages, messages)
          /\ \A i \in 1..Len(actions_taken) : \A n \in i..Len(actions_taken) :
                 actions_taken[i].step <= actions_taken[n].step)
    /\ [][IsPrefix(messages, messages') /\ IsPrefix(actions_taken, actions_taken')]_vars

\* a log with records of two different steps, after a conversation that has grown
AppendOnlyWitness ==
    /\ Len(messages) > Len(SeedMessages) + 2
    /\ Len(actions_taken) >= 2
    /\ actions_taken[1].step < actions_taken[Len(actions_taken)].step

\* C20: the step counter counts the in-loop planner calls, one step per call whatever
\* the call gives; there are never more than max_steps of them; the summary's
\* total_steps is their number.
StepsCountCalls ==
    /\ [](/\ step = calls
          /\ calls <= max_steps
          /\ pc = "returned" => Summary.total_steps = calls)
    /\ [][/\ calls' \in {calls, calls + 1}
          /\ step' - step = calls' - calls
          /\ (pc = "loop" /\ pc' = "loop") => calls' = calls + 1]_vars

\* a session that used the whole budget has returned
StepsCountCallsWitness ==
    /\ pc = "returned"
    /\ calls = max_steps
    /\ Summary.total_steps = max_steps
    /\ dispatched > 0

(***************************************************************************)
(* Claims about the dispatcher's branches (checked under SpecDispatch).    *)
(***************************************************************************)
\* the arguments with the documented default written out where the key is missing
WithDefault(d, key, value) == IF key \in DOMAIN d THEN d ELSE Put(d, key, value)

\* the tool call with its optional argument written out
Explicit(tc) ==
    IF "json" \notin DOMAIN tc.arguments THEN tc
    ELSE IF tc.name = "write_to_file"
         THEN [tc EXCEPT !.arguments = Args(WithDefault(ArgsOf(tc), "mode", PyStr(<<"w">>)))]
    ELSE IF tc.name = "list_directory_contents"
         THEN [tc EXCEPT !.arguments = Args(WithDefault(ArgsOf(tc), "directory", PyStr(Dot)))]
    ELSE tc

ExplicitBatch(tool_calls) == [i \in 1..Len(tool_calls) |-> Explicit(tool_calls[i])]

\* the finished call gave what the batch with the defaults written out gives
SameAsExplicit(tool_calls) ==
    \E rc \in ExitCodes :
        handle_tool_calls(tool_calls, rc, InitFs(cwd), <<>>, cwd)
            = Effect(call.ret, fs, processes)

\* the i-th call of the batch is a write without mode, the last write of the batch to
\* its file
LastModelessWrite(tool_calls, i) ==
    /\ tool_calls[i].name = "write_to_file"
    /\ ~Faulty(tool_calls[i])
    /\ "mode" \notin DOMAIN ArgsOf(tool_calls[i])
    /\ \A n \in (i + 1)..Len(tool_calls) : tool_calls[n].name # "write_to_file"

\* the file the i-th call wrote holds that call's content and nothing else
HoldsContentOf(tool_calls, i, tool_responses) ==
    tool_responses[i].output = JsonDumps(PyDict([success |-> TRUE])) =>
        ContentAt(fs, ArgsOf(tool_calls[i]).filename) = ArgsOf(tool_calls[i]).content.s

\* C21: a batch is handled as the same batch with the defaults written out (mode "w"
\* for write_to_file, directory "." for list_directory_contents); a write without mode
\* leaves its content alone in the file, whatever the file held.
DefaultsApplied ==
    (call.fn = "_handle_tool_calls" /\ call.done) =>
        /\ SameAsExplicit(ExplicitBatch(call.args[1]))
        /\ ~call.ret.raised =>
               \A i \in 1..Len(call.args[1]) :
                   LastModelessWrite(call.args[1], i) =>
                       HoldsContentOf(call.args[1], i, call.ret.value)

\* s/x was written twice without mode and holds the content once; the working
\* directory was listed without directory
DefaultsAppliedWitness ==
    /\ call.fn = "_handle_tool_calls" /\ call.done /\ ~call.ret.raised
    /\ Len(call.args[1]) = 2
    /\ \A i \in 1..2 :
           /\ call.args[1][i].name = "write_to_file"
           /\ "mode" \notin DOMAIN ArgsOf(call.args[1][i])
    /\ ContentAt(fs, PyStr(<<"s", "/", "x">>)) = <<"a">>

(***************************************************************************)
(* Claims about the conversation handed to the planner (checked under      *)
(* Spec).                                                                  *)
(***************************************************************************)
\* the tool messages that follow the reply at position j are the answers to its tool
\* calls, one each, in order, and no further tool message follows them
AnsweredOnce(j) ==
    /\ \A k \in 1..Len(messages[j].tool_calls) : Answered(j, k)
    /\ j + Len(messages[j].tool_calls) < Len(messages) =>
           messages[j + Len(messages[j].tool_calls) + 1].role # "tool"

\* C22: whenever a planner call is about to be made (in the loop, or the final summary
\* call), every tool call of every assistant message of the conversation has exactly one
\* tool message with its identifier, after that assistant message and before any later
\* assistant or user message.
ConversationAnswered ==
    pc \in {"loop", "synthesis"} =>
        \A j \in 1..Len(messages) : CarriesToolCalls(j) => AnsweredOnce(j)

\* the step appends a planner reply that carries tool calls
ToolReplyArrives ==
    /\ Len(messages') > Len(messages)
    /\ messages'[Len(messages) + 1].role = "assistant"
    /\ messages'[Len(messages) + 1].tool_calls # <<>>

\* C23: a reply that carries tool calls never completes the session, whatever its text
\* says: its batch is dispatched and the loop goes on to its next iteration (where it
\* may find the budget used up).
ToolReplyKeepsLooping ==
    [][ToolReplyArrives =>
          (/\ outcome' = "running"
           /\ pc' = "loop"
           /\ dispatched' = dispatched + 1)]_vars

(***************************************************************************)
(* Claims about operations the dispatcher does not know (checked under     *)
(* SpecDispatch).                                                          *)
(***************************************************************************)
Registered ==
    {"read_file", "get_file_metadata", "list_directory_contents", "write_to_file",
     "run_command", "create_directory"}

\* the batch names no registered operation
AllUnknown(tool_calls) ==
    \A i \in 1..Len(tool_calls) : tool_calls[i].name \notin Registered

\* the call gave the i-th invocation of the batch a result with its identifier and the
\* payload null
NullResult(tool_calls, i) ==
    /\ ~call.ret.raised
    /\ i <= Len(call.ret.value)
    /\ call.ret.value[i] =
           [tool_call_id |-> tool_calls[i].id, output |-> JsonDumps(PyNone)]

\* C24: an invocation whose operation name is not registered gets a result with its
\* identifier and a null payload; a batch of such invocations leaves the filesystem
\* and the process log as they were.
UnknownOperationAnswered ==
    (call.fn = "_handle_tool_calls" /\ call.done) =>
        /\ \A i \in 1..Len(call.args[1]) :
               call.args[1][i].name \notin Registered => NullResult(call.args[1], i)
        /\ AllUnknown(call.args[1]) => (fs = InitFs(cwd) /\ processes = <<>>)

====
